---- MODULE Spec2Model ----
(***************************************************************************)
(* precommit_message_preservation: the cache of a failed commit message,   *)
(* keyed by (repository root, branch).  Text is a sequence of one-char     *)
(* strings; the file system is a map from path to entry; git is the        *)
(* checkout state of the working directory.                                *)
(***************************************************************************)
EXTENDS Integers, Sequences, FiniteSets, TLC

\* ------------------------------------------------------------------ text

NL == "\n"
HASH == "#"
SLASH == "/"
EMPTY == << >>

Dashes24 ==
  << "-", "-", "-", "-", "-", "-", "-", "-", "-", "-", "-", "-",
     "-", "-", "-", "-", "-", "-", "-", "-", "-", "-", "-", "-" >>

\* src line 9: "# ------------------------ >8 ------------------------"
VERBOSE_MARKER == << "#", " " >> \o Dashes24 \o << " ", ">", "8", " " >> \o Dashes24

\* str.startswith(prefix)
startswith(s, prefix) ==
  /\ Len(s) >= Len(prefix)
  /\ SubSeq(s, 1, Len(prefix)) = prefix

\* str.find(sub), 1-based; 0 when sub does not occur
find(s, sub) ==
  LET hits == { i \in 1..(Len(s) - Len(sub) + 1) :
                  /\ s[i] = sub[1]
                  /\ SubSeq(s, i, i + Len(sub) - 1) = sub }
  IN IF hits = {} THEN 0 ELSE CHOOSE i \in hits : \A j \in hits : i <= j

\* str.partition(sep): (before, sep, after), or (s, "", "") when sep is absent
partition(s, sep) ==
  LET i == find(s, sep)
  IN IF i = 0 THEN << s, EMPTY, EMPTY >>
     ELSE << SubSeq(s, 1, i - 1), sep, SubSeq(s, i + Len(sep), Len(s)) >>

\* str.split(c) for a one-character separator, from position p on
RECURSIVE SplitFrom(_, _, _)
SplitFrom(s, c, p) ==
  LET at == { i \in p..Len(s) : s[i] = c }
  IN IF at = {} THEN << SubSeq(s, p, Len(s)) >>
     ELSE LET i == CHOOSE i \in at : \A j \in at : i <= j
          IN << SubSeq(s, p, i - 1) >> \o SplitFrom(s, c, i + 1)

split(s, c) == SplitFrom(s, c, 1)

\* sep.join(parts) for a one-character separator
RECURSIVE join(_, _)
join(c, parts) ==
  IF parts = << >> THEN EMPTY
  ELSE IF Len(parts) = 1 THEN parts[1]
  ELSE parts[1] \o << c >> \o join(c, Tail(parts))

\* str.strip(): leading and trailing whitespace removed
IsSpace(ch) == ch \in { " ", "\n", "\t", "\r" }

RECURSIVE lstrip(_)
lstrip(s) == IF s # << >> /\ IsSpace(s[1]) THEN lstrip(Tail(s)) ELSE s

RECURSIVE rstrip(_)
rstrip(s) ==
  IF s # << >> /\ IsSpace(s[Len(s)]) THEN rstrip(SubSeq(s, 1, Len(s) - 1)) ELSE s

strip(s) == lstrip(rstrip(s))

\* ---------------------------------------------------------- sanitization

IsCommentLine(l) == startswith(l, << HASH >>)

\* clear_comments with a slip: only the first comment line is removed
clear_comments_first_only(content) ==
  LET lines == split(content, NL)
      at == { k \in 1..Len(lines) : IsCommentLine(lines[k]) }
  IN IF at = {} THEN content
     ELSE LET k == CHOOSE k \in at : \A j \in at : k <= j
          IN join(NL, SubSeq(lines, 1, k - 1) \o SubSeq(lines, k + 1, Len(lines)))

\* src lines 11-17
clear_comments(content) ==
  join(NL, SelectSeq(split(content, NL), LAMBDA l : ~IsCommentLine(l)))

\* src lines 20-29
clear_verbose_code(content) ==
  LET parts == partition(content, VERBOSE_MARKER)
  IN parts[1]

\* src lines 129-130
Sanitize(message) == clear_comments(clear_verbose_code(message))

\* ------------------------------------------------------ hashlib.sha256

\* A 32-bit word is the pair <<high half, low half>> of 16-bit integers.
Half == 2 ^ 16

RECURSIVE Xor16(_, _)
Xor16(x, y) ==
  IF x = 0 /\ y = 0 THEN 0
  ELSE ((x + y) % 2) + 2 * Xor16(x \div 2, y \div 2)

RECURSIVE And16(_, _)
And16(x, y) ==
  IF x = 0 \/ y = 0 THEN 0
  ELSE ((x % 2) * (y % 2)) + 2 * And16(x \div 2, y \div 2)

WordOf(hi, lo) == << hi, lo >>
Xor(a, b) == << Xor16(a[1], b[1]), Xor16(a[2], b[2]) >>
And(a, b) == << And16(a[1], b[1]), And16(a[2], b[2]) >>
Not(a) == << (Half - 1) - a[1], (Half - 1) - a[2] >>

\* logical shift right by n bits
ShR(a, n) ==
  IF n >= 16 THEN << 0, a[1] \div (2 ^ (n - 16)) >>
  ELSE << a[1] \div (2 ^ n),
          (a[2] \div (2 ^ n)) + (a[1] % (2 ^ n)) * (2 ^ (16 - n)) >>

\* rotate right by n bits
RotR(a, n) ==
  LET b == IF n >= 16 THEN << a[2], a[1] >> ELSE a
      m == n % 16
  IN << (b[1] \div (2 ^ m)) + (b[2] % (2 ^ m)) * (2 ^ (16 - m)),
        (b[2] \div (2 ^ m)) + (b[1] % (2 ^ m)) * (2 ^ (16 - m)) >>

\* addition modulo 2^32
Add(a, b) ==
  LET lo == a[2] + b[2]
  IN << (a[1] + b[1] + (lo \div Half)) % Half, lo % Half >>

SHA256_K ==
  <<
    <<17034, 12184>>, <<28983, 17553>>, <<46528, 64463>>, <<59829, 56229>>,
    <<14678, 49755>>, <<23025, 4593>>, <<37439, 33444>>, <<43804, 24277>>,
    <<55303, 43672>>, <<4739, 23297>>, <<9265, 34238>>, <<21772, 32195>>,
    <<29374, 23924>>, <<32990, 45566>>, <<39900, 1703>>, <<49563, 61812>>,
    <<58523, 27073>>, <<61374, 18310>>, <<4033, 40390>>, <<9228, 41420>>,
    <<11753, 11375>>, <<19060, 33962>>, <<23728, 43484>>, <<30457, 35034>>,
    <<38974, 20818>>, <<43057, 50797>>, <<45059, 10184>>, <<48985, 32711>>,
    <<50912, 3059>>, <<54695, 37191>>, <<1738, 25425>>, <<5161, 10599>>,
    <<10167, 2693>>, <<11803, 8504>>, <<19756, 28156>>, <<21304, 3347>>,
    <<25866, 29524>>, <<30314, 2747>>, <<33218, 51502>>, <<37490, 11397>>,
    <<41663, 59553>>, <<43034, 26187>>, <<49739, 35696>>, <<51052, 20899>>,
    <<53650, 59417>>, <<54937, 1572>>, <<62478, 13701>>, <<4202, 41072>>,
    <<6564, 49430>>, <<7735, 27656>>, <<10056, 30540>>, <<13488, 48309>>,
    <<14620, 3251>>, <<20184, 43594>>, <<23452, 51791>>, <<26670, 28659>>,
    <<29839, 33518>>, <<30885, 25455>>, <<33992, 30740>>, <<36039, 520>>,
    <<37054, 65530>>, <<42064, 27883>>, <<48889, 41975>>, <<50801, 30962>>
  >>

SHA256_H0 ==
  <<
    <<27145, 58983>>, <<47975, 44677>>, <<15470, 62322>>, <<42319, 62778>>,
    <<20750, 21119>>, <<39685, 26764>>, <<8067, 55723>>, <<23520, 52505>>
  >>

SHA256_Ch(x, y, z) == Xor(And(x, y), And(Not(x), z))
SHA256_Maj(x, y, z) == Xor(Xor(And(x, y), And(x, z)), And(y, z))
SHA256_BigSigma0(x) == Xor(Xor(RotR(x, 2), RotR(x, 13)), RotR(x, 22))
SHA256_BigSigma1(x) == Xor(Xor(RotR(x, 6), RotR(x, 11)), RotR(x, 25))
SHA256_SmallSigma0(x) == Xor(Xor(RotR(x, 7), RotR(x, 18)), ShR(x, 3))
SHA256_SmallSigma1(x) == Xor(Xor(RotR(x, 17), RotR(x, 19)), ShR(x, 10))

\* str.encode("utf-8") of the characters that occur in the modelled roots (ASCII)
Ord(ch) ==
  CASE ch = "/" -> 47
    [] ch = "0" -> 48 [] ch = "1" -> 49 [] ch = "2" -> 50 [] ch = "3" -> 51
    [] ch = "4" -> 52 [] ch = "5" -> 53 [] ch = "6" -> 54 [] ch = "7" -> 55
    [] ch = "8" -> 56 [] ch = "9" -> 57
    [] ch = "p" -> 112 [] ch = "s" -> 115 [] ch = "w" -> 119
    [] ch = "x" -> 120 [] ch = "y" -> 121

encode(s) == [ i \in 1..Len(s) |-> Ord(s[i]) ]

\* The padded message of a one-block input (at most 55 bytes): the bytes,
\* 0x80, zeros, and the bit length as a 64-bit big-endian integer.
SHA256_Padded(bytes) ==
  [ i \in 1..64 |->
      IF i <= Len(bytes) THEN bytes[i]
      ELSE IF i = Len(bytes) + 1 THEN 128
      ELSE IF i = 63 THEN (Len(bytes) * 8) \div 256
      ELSE IF i = 64 THEN (Len(bytes) * 8) % 256
      ELSE 0 ]

SHA256_Block(bytes) ==
  LET m == SHA256_Padded(bytes)
  IN [ t \in 1..16 |->
         WordOf(m[4 * t - 3] * 256 + m[4 * t - 2], m[4 * t - 1] * 256 + m[4 * t]) ]

\* The message schedule; w holds the words computed so far.
RECURSIVE SHA256_Schedule(_)
SHA256_Schedule(w) ==
  LET t == Len(w) + 1
  IN IF t > 64 THEN w
     ELSE SHA256_Schedule(
            Append(w, Add(Add(SHA256_SmallSigma1(w[t - 2]), w[t - 7]),
                          Add(SHA256_SmallSigma0(w[t - 15]), w[t - 16]))))

\* one round on the working variables <<a, b, c, d, e, f, g, h>>
SHA256_Round(v, k, w) ==
  LET t1 == Add(Add(Add(v[8], SHA256_BigSigma1(v[5])),
                    Add(SHA256_Ch(v[5], v[6], v[7]), WordOf(k[1], k[2]))), w)
      t2 == Add(SHA256_BigSigma0(v[1]), SHA256_Maj(v[1], v[2], v[3]))
  IN << Add(t1, t2), v[1], v[2], v[3], Add(v[4], t1), v[5], v[6], v[7] >>

\* rounds t..64 applied to the working variables v
RECURSIVE SHA256_Rounds(_, _, _)
SHA256_Rounds(v, w, t) ==
  IF t > 64 \/ Len(v) # 8 THEN v
  ELSE SHA256_Rounds(SHA256_Round(v, SHA256_K[t], w[t]), w, t + 1)

HexDigit(n) ==
  << "0", "1", "2", "3", "4", "5", "6", "7",
     "8", "9", "a", "b", "c", "d", "e", "f" >>[n + 1]

\* the eight hex digits of a word, most significant first
HexOfWord(x) ==
  [ d \in 1..8 |->
      LET half == IF d <= 4 THEN x[1] ELSE x[2]
          shift == 4 * (3 - ((d - 1) % 4))
      IN HexDigit((half \div (2 ^ shift)) % 16) ]

\* hashlib.sha256(bytes).hexdigest()[:8]: the first word of the digest
sha256_hexdigest8(bytes) ==
  LET h0 == [ i \in 1..8 |-> WordOf(SHA256_H0[i][1], SHA256_H0[i][2]) ]
      v == SHA256_Rounds(h0, SHA256_Schedule(SHA256_Block(bytes)), 1)
  IN HexOfWord(Add(h0[1], v[1]))

\* --------------------------------------------------------------- os.path

isabs(p) == startswith(p, << SLASH >>)

\* position of the last "/" of p, 0 when there is none
rfind_slash(p) ==
  LET at == { i \in 1..Len(p) : p[i] = SLASH }
  IN IF at = {} THEN 0 ELSE CHOOSE i \in at : \A j \in at : j <= i

RECURSIVE rstrip_slash(_)
rstrip_slash(p) ==
  IF p # << >> /\ p[Len(p)] = SLASH THEN rstrip_slash(SubSeq(p, 1, Len(p) - 1)) ELSE p

\* os.path.basename
basename(p) == SubSeq(p, rfind_slash(p) + 1, Len(p))

\* os.path.dirname
dirname(p) ==
  LET head_ == SubSeq(p, 1, rfind_slash(p))
  IN IF rstrip_slash(head_) # << >> THEN rstrip_slash(head_) ELSE head_

\* os.path.join(a, b)
path_join(a, b) ==
  IF isabs(b) THEN b
  ELSE IF a = << >> \/ a[Len(a)] = SLASH THEN a \o b
  ELSE a \o << SLASH >> \o b

\* the components of a path with "", "." and ".." resolved
RECURSIVE NormParts(_, _, _)
NormParts(comps, acc, rooted) ==
  IF comps = << >> THEN acc
  ELSE LET c == Head(comps)
       IN IF c = << >> \/ c = << "." >> THEN NormParts(Tail(comps), acc, rooted)
          ELSE IF c # << ".", "." >> THEN NormParts(Tail(comps), Append(acc, c), rooted)
          ELSE IF acc # << >> /\ acc[Len(acc)] # << ".", "." >>
                 THEN NormParts(Tail(comps), SubSeq(acc, 1, Len(acc) - 1), rooted)
          ELSE IF rooted THEN NormParts(Tail(comps), acc, rooted)
          ELSE NormParts(Tail(comps), Append(acc, c), rooted)

\* os.path.normpath
normpath(p) ==
  LET slashes == IF ~isabs(p) THEN << >>
                 ELSE IF startswith(p, << SLASH, SLASH >>)
                         /\ ~startswith(p, << SLASH, SLASH, SLASH >>)
                      THEN << SLASH, SLASH >>
                 ELSE << SLASH >>
      body == join(SLASH, NormParts(split(p, SLASH), << >>, isabs(p)))
  IN IF slashes \o body = << >> THEN << "." >> ELSE slashes \o body

\* os.path.abspath in working directory wd
abspath(p, wd) == IF isabs(p) THEN normpath(p) ELSE normpath(path_join(wd, p))

\* ----------------------------------------------------------- environment

DirX == << "/", "x", "/", "p" >>
DirY == << "/", "y", "/", "p" >>
DirYSub == << "/", "y", "/", "p", "/", "s" >>
\* two roots whose SHA-256 digests share their first eight hex digits
DirW1 == << "/", "w", "1", "1", "9", "0", "7", "1", "/", "p" >>
DirW2 == << "/", "w", "1", "7", "2", "5", "1", "2", "/", "p" >>

\* the working directories of the process, and the work tree each lies in
WorkDirs == { DirX, DirYSub }
WorkTree(wd) == IF wd = DirYSub THEN DirY ELSE wd

BranchA == << "a" >>
BranchNested == << "a", ".", "t", "x", "t", "/", "b" >>
UNKNOWN == << "u", "n", "k", "n", "o", "w", "n" >>
CheckoutBranches == { BranchA, BranchNested }

\* The checkout of the working directory: not a repository, a detached HEAD
\* (branch empty) or a branch.
NoRepo == [ repo |-> FALSE, branch |-> EMPTY ]
Detached == [ repo |-> TRUE, branch |-> EMPTY ]
OnBranch(b) == [ repo |-> TRUE, branch |-> b ]
HeadStates == { NoRepo, Detached } \cup { OnBranch(b) : b \in CheckoutBranches }

\* os.environ: HOME is set, XDG_CACHE_HOME is not
environ == [ n \in { "HOME" } |-> << "/", "h" >> ]

environ_get(name, default) == IF name \in DOMAIN environ THEN environ[name] ELSE default

\* src lines 134-136
xdg_cache_home ==
  LET home == environ["HOME"]
  IN environ_get("XDG_CACHE_HOME", path_join(home, << ".", "c", "a", "c", "h", "e" >>))

CACHE_DIR_NAME ==
  << "p", "r", "e", "c", "o", "m", "m", "i", "t", "-",
     "m", "e", "s", "s", "a", "g", "e", "-",
     "p", "r", "e", "s", "e", "r", "v", "a", "t", "i", "o", "n" >>

TXT == << ".", "t", "x", "t" >>

\* The roots a digest is ever asked for; the digests are computed once.
KnownRoots == { DirX, DirY, DirYSub, DirW1, DirW2 }
DigestOf == [ r \in KnownRoots |-> sha256_hexdigest8(encode(r)) ]

\* src lines 62-64: hasher.update(root.encode("utf-8")); hasher.hexdigest()[:8]
hexdigest8(repository_root) == DigestOf[repository_root]

\* repo_dir with a slip: the digest is left out of the directory name
repo_dir_without_digest(repository_root) == basename(repository_root)

\* src line 64
repo_dir(repository_root) ==
  basename(repository_root) \o << "-" >> \o hexdigest8(repository_root)

\* src lines 52-66
get_cache_file_path(repository_root, branch) ==
  LET cache_dir == path_join(xdg_cache_home, CACHE_DIR_NAME)
  IN path_join(path_join(cache_dir, repo_dir(repository_root)), branch \o TXT)

\* ----------------------------------------------------------- file system

\* A file system maps each existing path to its entry; "/" always exists.
ROOT_DIR == << SLASH >>
DirEntry == [ kind |-> "dir", data |-> EMPTY ]
FileEntry(data) == [ kind |-> "file", data |-> data ]
EmptyFs == [ p \in {} |-> DirEntry ]

isdir(f, p) == p = ROOT_DIR \/ (p \in DOMAIN f /\ f[p].kind = "dir")
isfile(f, p) == p \in DOMAIN f /\ f[p].kind = "file"
\* os.path.exists
exists(f, p) == isdir(f, p) \/ isfile(f, p)

\* the proper ancestors of p other than "/"
Ancestors(p) == { SubSeq(p, 1, i - 1) : i \in { j \in 2..Len(p) : p[j] = SLASH } }
UnderFile(f, p) == \E q \in Ancestors(p) : isfile(f, q)

Put(f, p, entry) == [ q \in DOMAIN f \cup { p } |-> IF q = p THEN entry ELSE f[q] ]
Drop(f, p) == [ q \in DOMAIN f \ { p } |-> f[q] ]

\* the result of a call: the file system after it and the exception it raised
Done(f) == [ fs |-> f, exc |-> "none" ]
Raise(f, e) == [ fs |-> f, exc |-> e ]

\* os.mkdir
mkdir(f, p) ==
  IF exists(f, p) THEN Raise(f, "FileExistsError")
  ELSE IF UnderFile(f, p) THEN Raise(f, "NotADirectoryError")
  ELSE IF ~isdir(f, dirname(p)) THEN Raise(f, "FileNotFoundError")
  ELSE Done(Put(f, p, DirEntry))

\* os.makedirs(name, exist_ok=True)
RECURSIVE makedirs(_, _)
makedirs(f, name) ==
  LET head_ == dirname(name)
      up == IF head_ # << >> /\ basename(name) # << >> /\ ~exists(f, head_)
            THEN makedirs(f, head_) ELSE Done(f)
  IN IF up.exc \notin { "none", "FileExistsError" } THEN up
     ELSE LET made == mkdir(up.fs, name)
          IN IF made.exc # "none" /\ isdir(up.fs, name) THEN Done(up.fs) ELSE made

\* open(p, "w"): the file is created or truncated
open_w(f, p) ==
  IF isdir(f, p) THEN Raise(f, "IsADirectoryError")
  ELSE IF UnderFile(f, p) THEN Raise(f, "NotADirectoryError")
  ELSE IF ~isdir(f, dirname(p)) THEN Raise(f, "FileNotFoundError")
  ELSE Done(Put(f, p, FileEntry(EMPTY)))

\* f.write(data) and the close that ends the with block
write_close(f, p, data) == Done(Put(f, p, FileEntry(data)))

\* open(p, "r") and f.read()
open_r(f, p) ==
  IF isfile(f, p) THEN [ ret |-> f[p].data, exc |-> "none" ]
  ELSE IF isdir(f, p) THEN [ ret |-> EMPTY, exc |-> "IsADirectoryError" ]
  ELSE IF UnderFile(f, p) THEN [ ret |-> EMPTY, exc |-> "NotADirectoryError" ]
  ELSE [ ret |-> EMPTY, exc |-> "FileNotFoundError" ]

\* os.remove
remove(f, p) ==
  IF isfile(f, p) THEN Done(Drop(f, p))
  ELSE IF isdir(f, p) THEN Raise(f, "IsADirectoryError")
  ELSE IF UnderFile(f, p) THEN Raise(f, "NotADirectoryError")
  ELSE Raise(f, "FileNotFoundError")

\* -------------------------------------------------------------------- git

\* subprocess.check_output(["git", "branch", "--show-current"]) for checkout h:
\* a non-zero exit outside a repository, nothing printed on a detached HEAD
git_branch_show_current(h) ==
  IF ~h.repo THEN [ ok |-> FALSE, out |-> EMPTY ]
  ELSE IF h.branch = EMPTY THEN [ ok |-> TRUE, out |-> EMPTY ]
  ELSE [ ok |-> TRUE, out |-> h.branch \o << NL >> ]

\* subprocess.check_output(["git", "rev-parse", "--git-dir"]) in directory wd
git_rev_parse_git_dir(h, wd) ==
  IF ~h.repo THEN [ ok |-> FALSE, out |-> EMPTY ]
  ELSE IF wd = WorkTree(wd) THEN [ ok |-> TRUE, out |-> << ".", "g", "i", "t", NL >> ]
  ELSE [ ok |-> TRUE, out |-> WorkTree(wd) \o << SLASH, ".", "g", "i", "t", NL >> ]

\* ------------------------------------------------------------------ state

VARIABLES
  fs,       \* the file system
  cwd,      \* the working directory of the process
  head,     \* the checkout of the working directory
  scope,    \* the MessagePreservation object of the current with statement
  last,     \* the last call: its arguments and what the caller saw of it
  nops,     \* the number of calls and environment changes so far
  job,      \* the input of a pure computation
  results,  \* the outputs of the pure computation's steps so far
  procs     \* two concurrent invocations, each at a step of its call

vars == << fs, cwd, head, scope, last, nops, job, results, procs >>

\* ------------------------------------------------------------------ bounds

MaxOps == 4
MaxSegs == 4

\* ------------------------------------------------- the module's functions

\* Python's "x or y" on strings: the empty string (like None) is false
Or(x, y) == IF x # EMPTY THEN x ELSE y

\* src lines 77-83
get_repository_branch ==
  LET r == git_branch_show_current(head)
  IN IF r.ok THEN strip(r.out) ELSE UNKNOWN

\* src lines 86-95
get_repository_root ==
  LET r == git_rev_parse_git_dir(head, cwd)
  IN IF r.ok THEN abspath(dirname(r.out), cwd) ELSE abspath(<< "." >>, cwd)

\* src lines 69-74, on file system f
get_content(f, filename) ==
  LET r == open_r(f, filename)
  IN IF r.exc = "none" THEN r.ret ELSE EMPTY

\* src lines 32-49
get_cached_message(repository_root, branch) ==
  LET root == Or(repository_root, get_repository_root)
      br == Or(branch, get_repository_branch)
  IN get_content(fs, get_cache_file_path(root, br))

\* src lines 107-108, on file system f; existed is the outcome of the
\* os.path.exists test
remove_if_exists(f, message_cache) ==
  LET existed == exists(f, message_cache)
      removed == IF existed THEN remove(f, message_cache) ELSE Done(f)
  IN [ fs |-> removed.fs, exc |-> removed.exc, existed |-> existed ]

\* src lines 98-109
remove_message_cache(repository_root, branch) ==
  LET message_cache == get_cache_file_path(repository_root, branch)
      removed == remove_if_exists(fs, message_cache)
  IN [ fs |-> removed.fs, exc |-> removed.exc,
       path |-> message_cache, existed |-> removed.existed ]

\* src lines 126-132, on file system f
write_message(f, message_cache, message) ==
  LET dirs == makedirs(f, dirname(message_cache))
      cleared_message == clear_comments(clear_verbose_code(message))
      opened == open_w(dirs.fs, message_cache)
  IN IF dirs.exc # "none" THEN dirs
     ELSE IF opened.exc # "none" THEN opened
     ELSE write_close(opened.fs, message_cache, cleared_message)

\* src lines 112-132; queried tells whether git was asked for the branch
save_commit_message(message, repository_root, branch) ==
  LET root == Or(repository_root, get_repository_root)
      br == Or(branch, get_repository_branch)
      message_cache == get_cache_file_path(root, br)
      written == write_message(fs, message_cache, message)
  IN [ fs |-> written.fs, exc |-> written.exc,
       path |-> message_cache, queried |-> (branch = EMPTY) ]

\* ------------------------------------------------------------ the inputs

\* a comment line, a body line, the marker on a line of its own, a diff
MsgVerbose == << "a", NL, HASH, "c", NL, "b", NL >> \o VERBOSE_MARKER \o << NL, "d" >>
\* the marker inside a line
MsgInline == << "a" >> \o VERBOSE_MARKER

Messages == { MsgVerbose, MsgInline }
\* the (root, branch) arguments of a direct call: both omitted (EMPTY), or both given
CallArgs == { << EMPTY, EMPTY >> } \cup { << DirX, b >> : b \in CheckoutBranches }

NoScope ==
  [ state |-> "none", message |-> EMPTY, repository_root |-> EMPTY, branch |-> EMPTY ]

NoCall ==
  [ op |-> "none", message |-> EMPTY, root |-> EMPTY, branch |-> EMPTY,
    path |-> EMPTY, ret |-> EMPTY, exc |-> "none",
    existed |-> FALSE, queried |-> FALSE, error |-> FALSE ]

Idle == [ kind |-> "idle", message |-> EMPTY, root |-> EMPTY, branch |-> EMPTY ]
NoProcs == [ init |-> EmptyFs, p |-> << >> ]

\* ---------------------------------------------------------------- actions

\* a direct call of save_commit_message
SaveCommitMessage(m, r, b) ==
  /\ nops < MaxOps
  /\ LET res == save_commit_message(m, r, b)
     IN /\ fs' = res.fs
        /\ last' = [ NoCall EXCEPT !.op = "save", !.message = m, !.root = r,
                       !.branch = b, !.path = res.path, !.exc = res.exc,
                       !.queried = res.queried ]
  /\ nops' = nops + 1
  /\ UNCHANGED << cwd, head, scope, job, results, procs >>

\* a direct call of get_cached_message
GetCachedMessage(r, b) ==
  /\ nops < MaxOps
  /\ last' = [ NoCall EXCEPT !.op = "get", !.root = r, !.branch = b,
                 !.ret = get_cached_message(r, b), !.queried = (b = EMPTY) ]
  /\ nops' = nops + 1
  /\ UNCHANGED << fs, cwd, head, scope, job, results, procs >>

\* a direct call of remove_message_cache
RemoveMessageCache(r, b) ==
  /\ nops < MaxOps
  /\ LET res == remove_message_cache(r, b)
     IN /\ fs' = res.fs
        /\ last' = [ NoCall EXCEPT !.op = "remove", !.root = r, !.branch = b,
                       !.path = res.path, !.exc = res.exc, !.existed = res.existed ]
  /\ nops' = nops + 1
  /\ UNCHANGED << cwd, head, scope, job, results, procs >>

\* src lines 140-143: MessagePreservation.__init__
MessagePreservation_init(m) ==
  /\ nops < MaxOps
  /\ scope.state \in { "none", "exited" }
  /\ scope' = [ state |-> "init", message |-> m,
                repository_root |-> get_repository_root,
                branch |-> get_repository_branch ]
  /\ last' = [ NoCall EXCEPT !.op = "init", !.message = m, !.queried = TRUE ]
  /\ nops' = nops + 1
  /\ UNCHANGED << fs, cwd, head, job, results, procs >>

\* src lines 145-146: MessagePreservation.__enter__
MessagePreservation_enter ==
  /\ scope.state = "init"
  /\ scope' = [ scope EXCEPT !.state = "entered" ]
  /\ last' = [ NoCall EXCEPT !.op = "enter" ]
  /\ UNCHANGED << fs, cwd, head, nops, job, results, procs >>

\* src lines 148-154: MessagePreservation.__exit__; error tells whether an
\* exception leaves the with block.  The caller sees exc: the exception of
\* the body ("original") when __exit__ returns False, the one __exit__ raises
\* otherwise.
MessagePreservation_exit(error) ==
  /\ nops < MaxOps
  /\ scope.state = "entered"
  /\ LET res == IF error
                THEN save_commit_message(scope.message, scope.repository_root, scope.branch)
                ELSE remove_message_cache(scope.repository_root, scope.branch)
     IN /\ fs' = res.fs
        /\ last' = [ NoCall EXCEPT
                       !.op = "exit", !.error = error, !.message = scope.message,
                       !.root = scope.repository_root, !.branch = scope.branch,
                       !.path = res.path,
                       !.exc = IF res.exc # "none" THEN res.exc
                               ELSE IF error THEN "original" ELSE "none",
                       !.existed = IF error THEN FALSE ELSE res.existed,
                       !.queried = IF error THEN res.queried ELSE FALSE ]
  /\ scope' = [ scope EXCEPT !.state = "exited" ]
  /\ nops' = nops + 1
  /\ UNCHANGED << cwd, head, job, results, procs >>

\* the checkout changes under the process: another branch is checked out,
\* HEAD is detached, or the directory stops (or starts) being a repository
Checkout(h) ==
  /\ nops < MaxOps
  /\ h # head
  /\ head' = h
  /\ last' = [ NoCall EXCEPT !.op = "checkout" ]
  /\ nops' = nops + 1
  /\ UNCHANGED << fs, cwd, scope, job, results, procs >>

\* os.chdir
Chdir(d) ==
  /\ nops < MaxOps
  /\ d # cwd
  /\ cwd' = d
  /\ last' = [ NoCall EXCEPT !.op = "chdir" ]
  /\ nops' = nops + 1
  /\ UNCHANGED << fs, head, scope, job, results, procs >>

Init ==
  /\ fs = EmptyFs
  /\ cwd = DirX
  /\ head \in HeadStates
  /\ scope = NoScope
  /\ last = NoCall
  /\ nops = 0
  /\ job = Idle
  /\ results = << >>
  /\ procs = NoProcs

Next ==
  \/ \E m \in Messages, a \in CallArgs : SaveCommitMessage(m, a[1], a[2])
  \/ \E a \in CallArgs : GetCachedMessage(a[1], a[2])
  \/ \E a \in CallArgs \ { << EMPTY, EMPTY >> } : RemoveMessageCache(a[1], a[2])
  \/ \E m \in Messages : MessagePreservation_init(m)
  \/ MessagePreservation_enter
  \/ \E error \in BOOLEAN : MessagePreservation_exit(error)
  \/ \E h \in HeadStates : Checkout(h)
  \/ \E d \in WorkDirs : Chdir(d)

Spec == Init /\ [][Next]_vars

\* ------------------------------------------------- the pure computations

\* Texts of at most MaxSegs segments: a letter, the comment character, a
\* newline, the verbose marker.
TextSegments == { << "a" >>, << HASH >>, << NL >>, VERBOSE_MARKER }

RECURSIVE TextsOf(_)
TextsOf(n) ==
  IF n = 0 THEN { EMPTY }
  ELSE LET shorter == TextsOf(n - 1)
       IN shorter \cup { t \o s : t \in shorter, s \in TextSegments }

TextJobs ==
  { [ kind |-> "text", message |-> m, root |-> EMPTY, branch |-> EMPTY ] :
      m \in TextsOf(MaxSegs) }

PathJobs ==
  { [ kind |-> "path", message |-> EMPTY, root |-> r, branch |-> b ] :
      r \in KnownRoots, b \in CheckoutBranches \cup { UNKNOWN, EMPTY } }

\* the text the next sanitization step reads
Current == IF results = << >> THEN job.message ELSE results[Len(results)]

\* src line 129, and again when the cached text is saved a second time
ClearVerboseStep ==
  /\ job.kind = "text"
  /\ Len(results) \in { 0, 2 }
  /\ results' = Append(results, clear_verbose_code(Current))
  /\ UNCHANGED << fs, cwd, head, scope, last, nops, job, procs >>

\* src line 130, and again when the cached text is saved a second time
ClearCommentsStep ==
  /\ job.kind = "text"
  /\ Len(results) \in { 1, 3 }
  /\ results' = Append(results, clear_comments(Current))
  /\ UNCHANGED << fs, cwd, head, scope, last, nops, job, procs >>

\* src lines 52-66
CachePathStep ==
  /\ job.kind = "path"
  /\ results = << >>
  /\ results' = << get_cache_file_path(job.root, job.branch) >>
  /\ UNCHANGED << fs, cwd, head, scope, last, nops, job, procs >>

InitPure ==
  /\ fs = EmptyFs
  /\ cwd = DirX
  /\ head = NoRepo
  /\ scope = NoScope
  /\ last = NoCall
  /\ nops = 0
  /\ job \in TextJobs \cup PathJobs
  /\ results = << >>
  /\ procs = NoProcs

NextPure ==
  \/ ClearVerboseStep
  \/ ClearCommentsStep
  \/ CachePathStep

SpecPure == InitPure /\ [][NextPure]_vars

\* ----------------------------------------------------------------- claims

\* the offset in the text at which line k of lines starts
RECURSIVE LineStart(_, _)
LineStart(lines, k) ==
  IF k = 1 THEN 1 ELSE LineStart(lines, k - 1) + Len(lines[k - 1]) + 1

\* The text before the first line that is exactly the marker; the text itself
\* when no line is.
ExactMarkerLineCut(content) ==
  LET lines == split(content, NL)
      hits == { k \in 1..Len(lines) : lines[k] = VERBOSE_MARKER }
  IN IF hits = {} THEN content
     ELSE LET k == CHOOSE k \in hits : \A j \in hits : k <= j
          IN SubSeq(content, 1, LineStart(lines, k) - 1)

\* The text without the lines whose first character is "#".
WithoutCommentLines(content) ==
  join(NL, SelectSeq(split(content, NL), LAMBDA l : l = EMPTY \/ l[1] # HASH))

\* C4: clear_verbose_code cuts the text at the first line that is exactly the
\* marker, and returns the text unchanged when no line is exactly the marker.
C4_CutsAtExactMarkerLine ==
  (job.kind = "text" /\ Len(results) >= 1)
    => results[1] = ExactMarkerLineCut(job.message)

\* the cache directory of a cache file path for branch b
CacheDirOf(path, b) == SubSeq(path, 1, Len(path) - Len(b) - Len(TXT) - 1)

SameBasenameRoots(r) == { q \in KnownRoots : q # r /\ basename(q) = basename(r) }

\* C6: two different roots with the same basename get different cache
\* directories, and so different cache file paths, whatever the branch.
C6_SameBasenameDirsDiffer ==
  (job.kind = "path" /\ results # << >>)
    => \A q \in SameBasenameRoots(job.root) :
         /\ get_cache_file_path(q, job.branch) # results[1]
         /\ CacheDirOf(get_cache_file_path(q, job.branch), job.branch)
              # CacheDirOf(results[1], job.branch)

\* C6, amended: two different roots with the same basename get different
\* cache directories and file paths whenever the first eight hex digits of
\* their SHA-256 digests differ, and the same directory when they coincide.
C6_DirsDifferWithDigest ==
  (job.kind = "path" /\ results # << >>)
    => \A q \in SameBasenameRoots(job.root) :
         LET other == get_cache_file_path(q, job.branch)
             differ == sha256_hexdigest8(encode(q))
                         # sha256_hexdigest8(encode(job.root))
         IN /\ differ <=> (other # results[1])
            /\ differ <=> (CacheDirOf(other, job.branch)
                             # CacheDirOf(results[1], job.branch))

C6_Witness ==
  /\ job.kind = "path"
  /\ results # << >>
  /\ job.root = DirX
  /\ DirY \in SameBasenameRoots(job.root)
  /\ CacheDirOf(get_cache_file_path(DirY, job.branch), job.branch)
       # CacheDirOf(results[1], job.branch)
  /\ CacheDirOf(results[1], job.branch) = path_join(path_join(xdg_cache_home, CACHE_DIR_NAME),
       << "p", "-", "b", "5", "5", "c", "2", "3", "3", "3" >>)

\* C7: sanitizing the sanitized text again returns it unchanged.
C7_SanitizeIdempotent ==
  (job.kind = "text" /\ Len(results) = 4) => results[4] = results[2]

C7_Witness ==
  /\ job.kind = "text"
  /\ Len(results) = 4
  /\ results[1] # job.message
  /\ results[2] # results[1]
  /\ results[2] # EMPTY

\* the cache file of the (root, branch) the scope captured
ScopePath == get_cache_file_path(scope.repository_root, scope.branch)

\* C1: when a scope exits on an error, the caller sees that error, and the
\* cache file of the scope's (root, branch) exists and holds the sanitized
\* message.
C1_ErrorExitSavesAndPropagates ==
  (last.op = "exit" /\ last.error)
    => /\ last.exc = "original"
       /\ isfile(fs, ScopePath)
       /\ fs[ScopePath].data = Sanitize(scope.message)

\* C2: when a scope exits normally, the cache file of its (root, branch) does
\* not exist afterwards and get_cached_message for it returns the empty string.
C2_NormalExitClears ==
  (last.op = "exit" /\ ~last.error)
    => /\ ~isfile(fs, ScopePath)
       /\ get_cached_message(scope.repository_root, scope.branch) = EMPTY

\* C3: save_commit_message(m, root, branch) followed by
\* get_cached_message(root, branch) returns m cut at the first line that is
\* exactly the marker and then without its comment lines.
C3_RoundTripSanitized ==
  (last.op = "save" /\ last.root # EMPTY /\ last.branch # EMPTY)
    => get_cached_message(last.root, last.branch)
         = WithoutCommentLines(ExactMarkerLineCut(last.message))

\* C5: when the branch cannot be determined (git fails, or HEAD is detached),
\* the scope's branch is "unknown" and nothing is raised.
C5_UndeterminedBranchIsUnknown ==
  (last.op = "init" /\ (~head.repo \/ head.branch = EMPTY))
    => /\ scope.branch = UNKNOWN
       /\ last.exc = "none"

\* C8: remove_message_cache deletes the cache file when it exists; when the
\* file does not exist it raises nothing and leaves the file system unchanged.
C8_RemoveDeletesOrNoop ==
  [][ last'.op = "remove"
        => LET p == get_cache_file_path(last'.root, last'.branch)
           IN /\ last'.exc = "none"
              /\ fs' = IF isfile(fs, p) THEN Drop(fs, p) ELSE fs ]_vars

\* C10: the exit of a scope acts on the cache file of the (root, branch)
\* captured at construction, and asks git nothing.
C10_ExitActsOnCapturedKey ==
  last.op = "exit" => (last.path = ScopePath /\ ~last.queried)

\* ------------------------------------------------ concurrent invocations

\* Two invocations on one root, each one call with its root and branch given,
\* run step by step against the shared file system.
ConcRoot == DirX
ConcBranches == { BranchA, BranchNested, UNKNOWN }
ConcOps == { "save", "get", "remove" }
MsgOld == << "o" >>

FirstPc(op) ==
  CASE op = "save" -> "makedirs"
    [] op = "get" -> "read"
    [] op = "remove" -> "exists"

Proc(op, b, m) ==
  [ op |-> op, branch |-> b, message |-> m, pc |-> FirstPc(op),
    exc |-> "none", ret |-> EMPTY ]

ProcPath(p) == get_cache_file_path(ConcRoot, p.branch)

\* the file systems earlier runs on the two branches can have left behind
EarlierFs(b1, b2) ==
  LET one == write_message(EmptyFs, get_cache_file_path(ConcRoot, b1), MsgOld).fs
      two == write_message(EmptyFs, get_cache_file_path(ConcRoot, b2), MsgOld).fs
      both == write_message(one, get_cache_file_path(ConcRoot, b2), MsgOld).fs
  IN { EmptyFs, one, two, both }

SetProc(i, p) == procs' = [ procs EXCEPT !.p[i] = p ]

Finish(p, exc) == [ p EXCEPT !.pc = "done", !.exc = exc ]

\* src line 126
ConcMakedirs(i) ==
  /\ procs.p[i].pc = "makedirs"
  /\ LET r == makedirs(fs, dirname(ProcPath(procs.p[i])))
     IN /\ fs' = r.fs
        /\ SetProc(i, IF r.exc = "none" THEN [ procs.p[i] EXCEPT !.pc = "open" ]
                      ELSE Finish(procs.p[i], r.exc))
  /\ UNCHANGED << cwd, head, scope, last, nops, job, results >>

\* src line 131
ConcOpen(i) ==
  /\ procs.p[i].pc = "open"
  /\ LET r == open_w(fs, ProcPath(procs.p[i]))
     IN /\ fs' = r.fs
        /\ SetProc(i, IF r.exc = "none" THEN [ procs.p[i] EXCEPT !.pc = "write" ]
                      ELSE Finish(procs.p[i], r.exc))
  /\ UNCHANGED << cwd, head, scope, last, nops, job, results >>

\* src lines 129-132
ConcWrite(i) ==
  /\ procs.p[i].pc = "write"
  /\ LET cleared_message == clear_comments(clear_verbose_code(procs.p[i].message))
     IN fs' = write_close(fs, ProcPath(procs.p[i]), cleared_message).fs
  /\ SetProc(i, Finish(procs.p[i], "none"))
  /\ UNCHANGED << cwd, head, scope, last, nops, job, results >>

\* src lines 48-49
ConcRead(i) ==
  /\ procs.p[i].pc = "read"
  /\ SetProc(i, [ Finish(procs.p[i], "none") EXCEPT
                    !.ret = get_content(fs, ProcPath(procs.p[i])) ])
  /\ UNCHANGED << fs, cwd, head, scope, last, nops, job, results >>

\* src line 107
ConcExists(i) ==
  /\ procs.p[i].pc = "exists"
  /\ SetProc(i, IF exists(fs, ProcPath(procs.p[i]))
                THEN [ procs.p[i] EXCEPT !.pc = "unlink" ]
                ELSE Finish(procs.p[i], "none"))
  /\ UNCHANGED << fs, cwd, head, scope, last, nops, job, results >>

\* src line 108
ConcUnlink(i) ==
  /\ procs.p[i].pc = "unlink"
  /\ LET r == remove(fs, ProcPath(procs.p[i]))
     IN /\ fs' = r.fs
        /\ SetProc(i, Finish(procs.p[i], r.exc))
  /\ UNCHANGED << cwd, head, scope, last, nops, job, results >>

InitConc ==
  /\ procs \in { [ init |-> f, p |-> << Proc(o1, b1, MsgVerbose), Proc(o2, b2, MsgInline) >> ] :
                   f \in UNION { EarlierFs(x, y) : x, y \in ConcBranches },
                   o1 \in ConcOps, o2 \in ConcOps,
                   b1 \in ConcBranches, b2 \in ConcBranches }
  /\ procs.p[1].branch # procs.p[2].branch
  /\ procs.init \in EarlierFs(procs.p[1].branch, procs.p[2].branch)
  /\ fs = procs.init
  /\ cwd = DirX
  /\ head = NoRepo
  /\ scope = NoScope
  /\ last = NoCall
  /\ nops = 0
  /\ job = Idle
  /\ results = << >>

NextConc ==
  \E i \in 1..2 :
    \/ ConcMakedirs(i)
    \/ ConcOpen(i)
    \/ ConcWrite(i)
    \/ ConcRead(i)
    \/ ConcExists(i)
    \/ ConcUnlink(i)

SpecConc == InitConc /\ [][NextConc]_vars

\* what the call of p does when it runs alone on file system f
Alone(f, p) ==
  CASE p.op = "save" ->
         LET r == write_message(f, ProcPath(p), p.message)
         IN [ fs |-> r.fs, exc |-> r.exc, ret |-> EMPTY ]
    [] p.op = "get" ->
         [ fs |-> f, exc |-> "none", ret |-> get_content(f, ProcPath(p)) ]
    [] p.op = "remove" ->
         LET r == remove_if_exists(f, ProcPath(p))
         IN [ fs |-> r.fs, exc |-> r.exc, ret |-> EMPTY ]

\* the cache file at path p: its text, or that there is no such file
FileAt(f, p) ==
  IF isfile(f, p) THEN [ present |-> TRUE, data |-> f[p].data ]
  ELSE [ present |-> FALSE, data |-> EMPTY ]

AsAlone(i) ==
  LET p == procs.p[i]
      alone == Alone(procs.init, p)
  IN /\ p.exc = alone.exc
     /\ p.ret = alone.ret
     /\ FileAt(fs, ProcPath(p)) = FileAt(alone.fs, ProcPath(p))

AllDone == procs.p # << >> /\ \A i \in 1..2 : procs.p[i].pc = "done"

\* one branch's cache file lies under the path of the other's
Nested(b1, b2) ==
  \/ get_cache_file_path(ConcRoot, b1) \in Ancestors(get_cache_file_path(ConcRoot, b2))
  \/ get_cache_file_path(ConcRoot, b2) \in Ancestors(get_cache_file_path(ConcRoot, b1))

\* C9: two invocations on different branches of one root never collide:
\* under every interleaving each ends as it would have ended alone.
C9_BranchesNeverCollide ==
  AllDone => (AsAlone(1) /\ AsAlone(2))

\* The same, for two branches neither of whose cache files lies under the
\* other's path.
UnnestedBranchesNeverCollide ==
  (AllDone /\ ~Nested(procs.p[1].branch, procs.p[2].branch))
    => (AsAlone(1) /\ AsAlone(2))

====
